---- MODULE Spec2Model ----
(***************************************************************************)
(* Antigravity Router V1: the deterministic decision engine                *)
(* (RouterEngineV1 in router_engine.py) and the execution gateway          *)
(* (LLMGateway in llm_gateway.py), each as a state machine.                *)
(*                                                                         *)
(* A text is a sequence of one-character strings, so that strip, lower,    *)
(* the punctuation filter, startswith and the regex searches of the code   *)
(* are computed character by character.  Money is counted in units of      *)
(* 0.00001 USD (0.0001 USD = 10, 0.002 USD = 200, 0.025 USD = 2500).       *)
(***************************************************************************)
EXTENDS Integers, Sequences, FiniteSets

VARIABLES rules, compiled_intents, input_data, decision, prev_decision, pc,
          gateway, exec

vars == <<rules, compiled_intents, input_data, decision, prev_decision, pc,
          gateway, exec>>

(***************************************************************************)
(* Bounds of the model.                                                    *)
(***************************************************************************)
\* whitespace characters put on each side of a request text: 0..MaxPad
MaxPad == 1
\* number of entries of metadata.missing_slots: 0..MaxSlots
MaxSlots == 1

(***************************************************************************)
(* Characters and the string primitives of Python the engine uses.         *)
(***************************************************************************)
LowerAlpha == <<"a", "b", "c", "d", "e", "f", "g", "h", "i", "j", "k", "l", "m", "n", "o", "p", "q", "r", "s", "t", "u", "v", "w", "x", "y", "z">>
UpperAlpha == <<"A", "B", "C", "D", "E", "F", "G", "H", "I", "J", "K", "L", "M", "N", "O", "P", "Q", "R", "S", "T", "U", "V", "W", "X", "Y", "Z">>
Digits == {"0", "1", "2", "3", "4", "5", "6", "7", "8", "9"}

Range(f) == {f[i] : i \in DOMAIN f}

\* str.isspace() of one character
IsSpace(c) == c \in {" ", "\t", "\n"}

\* the characters the regex class \w matches
WordChars == Range(LowerAlpha) \cup Range(UpperAlpha) \cup Digits \cup {"_"}
IsWordChar(c) == c \in WordChars

\* the lower-case letter of every upper-case letter
LowerOf == [c \in Range(UpperAlpha) |->
               LowerAlpha[CHOOSE i \in DOMAIN UpperAlpha : UpperAlpha[i] = c]]

\* str.lower() of one character
LowerChar(c) == IF c \in DOMAIN LowerOf THEN LowerOf[c] ELSE c

\* str.lower()
lower(t) == [i \in 1..Len(t) |-> LowerChar(t[i])]

RECURSIVE lstrip(_)
lstrip(t) == IF t = <<>> \/ ~IsSpace(Head(t)) THEN t ELSE lstrip(Tail(t))

RECURSIVE rstrip(_)
rstrip(t) ==
    IF t = <<>> \/ ~IsSpace(t[Len(t)]) THEN t ELSE rstrip(SubSeq(t, 1, Len(t) - 1))

\* str.strip()
strip(t) == rstrip(lstrip(t))

\* str.startswith(p)
startswith(t, p) == Len(p) <= Len(t) /\ SubSeq(t, 1, Len(p)) = p

\* re.search of a literal pattern p in t: p occurs somewhere in t
re_search(p, t) ==
    \E i \in 1..(Len(t) - Len(p) + 1) : SubSeq(t, i, i + Len(p) - 1) = p

\* re.search of an alternation p1|p2|... of literal patterns
re_search_any(ps, t) == \E k \in DOMAIN ps : re_search(ps[k], t)

\* re.sub(r'[^\w\s]', '', t): drop what is neither a word character nor whitespace
re_sub_punct(t) == SelectSeq(t, LAMBDA c : IsWordChar(c) \/ IsSpace(c))

\* len(t.split()): the number of maximal runs of non-whitespace characters
split_len(t) ==
    Cardinality({i \in 1..Len(t) : ~IsSpace(t[i]) /\ (i = 1 \/ IsSpace(t[i - 1]))})

\* t[:n]
prefix(t, n) == SubSeq(t, 1, IF Len(t) < n THEN Len(t) ELSE n)

Max(a, b) == IF a >= b THEN a ELSE b
Min(a, b) == IF a <= b THEN a ELSE b

\* a dict with the keys of f and of g (f wins on a shared key)
Merge(f, g) ==
    [k \in (DOMAIN f) \cup (DOMAIN g) |-> IF k \in DOMAIN f THEN f[k] ELSE g[k]]

\* dict.get(k, default)
Get(d, k, default) == IF k \in DOMAIN d THEN d[k] ELSE default

(***************************************************************************)
(* Constants of the code.                                                  *)
(***************************************************************************)
\* the free phrases of Rule A
free_patterns ==
    << <<"h", "o", "l", "a">>,
       <<"b", "u", "e", "n", "a", "s">>,
       <<"b", "u", "e", "n", "o", "s", " ", "d", "i", "a", "s">>,
       <<"b", "u", "e", "n", "a", "s", " ", "t", "a", "r", "d", "e", "s">>,
       <<"b", "u", "e", "n", "a", "s", " ", "n", "o", "c", "h", "e", "s">>,
       <<"c", "h", "a", "u">>,
       <<"a", "d", "i", "o", "s">>,
       <<"h", "a", "s", "t", "a", " ", "l", "u", "e", "g", "o">>,
       <<"g", "r", "a", "c", "i", "a", "s">>,
       <<"m", "u", "c", "h", "a", "s", " ", "g", "r", "a", "c", "i", "a", "s">>,
       <<"o", "k">>,
       <<"d", "a", "l", "e">>,
       <<"l", "i", "s", "t", "o">>,
       <<"b", "u", "e", "n", "o">>,
       <<"p", "e", "r", "f", "e", "c", "t", "o">>,
       <<"g", "e", "n", "i", "a", "l">>,
       <<"s", "i">>,
       <<"n", "o">>,
       <<"c", "l", "a", "r", "o">>,
       <<"e", "x", "a", "c", "t", "o">>,
       <<"c", "o", "r", "r", "e", "c", "t", "o">>,
       <<"a", "s", "i", " ", "e", "s">>,
       <<"p", "r", "e", "c", "i", "o">>,
       <<"p", "r", "e", "c", "i", "o", "s">>,
       <<"i", "n", "f", "o">>,
       <<"a", "y", "u", "d", "a">>,
       <<"m", "e", "n", "u">>,
       <<"s", "a", "l", "i", "r">> >>

\* the alternatives of the hard-keyword regex of _calculate_risk
K_legal == <<"l", "e", "g", "a", "l">>
K_laboral == <<"l", "a", "b", "o", "r", "a", "l">>
K_medico == <<"m", "e", "d", "i", "c", "o">>
K_denuncia == <<"d", "e", "n", "u", "n", "c", "i", "a">>
risk_keywords == <<K_legal, K_laboral, K_medico, K_denuncia>>

\* the alternatives of the conditional-marker regex of _match_intent
M_si == <<"s", "i">>
M_depende == <<"d", "e", "p", "e", "n", "d", "e">>
M_cuando == <<"c", "u", "a", "n", "d", "o">>
conditional_markers == <<M_si, M_depende, M_cuando>>

\* text is shorter than VoiceMinLen characters: voice noise
VoiceMinLen == 10
\* text is shorter than FreeMaxLen characters: a short phrase
FreeMaxLen == 20
\* more than FallbackWords words: an explanation request
FallbackWords == 7
\* input_preview is text[:PreviewLen]
PreviewLen == 50
\* category base risk, keyword floor, enterprise bonus and the clamp
CriticalRisk == 60
ConversationalRisk == 20
KeywordFloor == 60
EnterpriseRisk == 20
RiskCap == 100
\* estimated cost per route and the floor cost, in 0.00001 USD
CostAntigravity == 0
CostDeepseek == 200
CostWaterfall == 2500
CostFloor == 10

(***************************************************************************)
(* Request texts and ruleset patterns the model draws from.                *)
(***************************************************************************)
T_empty == <<>>
T_hola == <<"h", "o", "l", "a">>
T_gracias == <<"G", "r", "a", "c", "i", "a", "s", "!">>
T_si == <<"s", "i">>
T_sistema == <<"s", "i", "s", "t", "e", "m", "a", " ", "c", "a", "i", "d", "o">>
T_legal == <<"L", "E", "G", "A", "L">>
T_agendar == <<"n", "e", "c", "e", "s", "i", "t", "o", " ", "a", "g", "e", "n", "d", "a", "r">>
T_denunciar == <<"q", "u", "i", "e", "r", "o", " ", "d", "e", "n", "u", "n", "c", "i", "a", "r", " ", "u", "n", " ", "c", "a", "s", "o", " ", "d", "e", " ", "m", "a", "l", "a", " ", "p", "r", "a", "x", "i", "s", " ", "l", "e", "g", "a", "l">>
T_candidato == <<"e", "l", " ", "c", "a", "n", "d", "i", "d", "a", "t", "o", " ", "t", "i", "t", "u", "b", "e", "o", " ", "e", "n", " ", "l", "a", " ", "r", "e", "s", "p", "u", "e", "s", "t", "a", " ", "s", "o", "b", "r", "e", " ", "s", "q", "l">>
T_explicame == <<"e", "x", "p", "l", "i", "c", "a", "m", "e", " ", "s", "i", " ", "c", "o", "n", "v", "i", "e", "n", "e", " ", "e", "l", " ", "p", "l", "a", "n">>
T_precio == <<"p", "r", "e", "c", "i", "o", " ", "d", "e", "l", " ", "p", "l", "a", "n", " ", "a", "n", "u", "a", "l", " ", "y", "a">>
T_ayer == <<"a", "y", "e", "r", " ", "f", "u", "i">>
R_hola == <<"h", "o", "l", "a">>
R_precio == <<"p", "r", "e", "c", "i", "o">>
R_agendar == <<"a", "g", "e", "n", "d", "a", "r">>
R_denunci == <<"d", "e", "n", "u", "n", "c", "i">>
R_candidato == <<"c", "a", "n", "d", "i", "d", "a", "t", "o">>
R_explicame == <<"e", "x", "p", "l", "i", "c", "a", "m", "e">>
R_comparar == <<"c", "o", "m", "p", "a", "r", "a", "r">>
R_plan == <<"p", "l", "a", "n">>
P_voice_noise == <<"v", "o", "i", "c", "e", "_", "n", "o", "i", "s", "e">>

\* the phrases a request text is built from
Phrases ==
    { T_empty, T_hola, T_gracias, T_si, T_sistema, T_legal, T_agendar,
      T_denunciar, T_candidato, T_explicame, T_precio, T_ayer }

RECURSIVE Spaces(_)
Spaces(n) == IF n = 0 THEN <<>> ELSE <<" ">> \o Spaces(n - 1)

\* a phrase with the same number of blanks, at most MaxPad, on both sides
Texts == { Spaces(k) \o p \o Spaces(k) : k \in 0..MaxPad, p \in Phrases }

SlotNames == <<"date", "time", "name", "phone">>
SlotLists == { SubSeq(SlotNames, 1, Min(n, Len(SlotNames))) : n \in 1..MaxSlots }

\* metadata: missing_slots and user_tier are optional keys
Metadatas ==
    LET slots == {<<>>} \cup { [missing_slots |-> s] : s \in SlotLists }
        tiers == {<<>>, [user_tier |-> "enterprise"]}
    IN  { Merge(s, t) : s \in slots, t \in tiers }

\* a request: text and metadata as the API passes them; channel, product and any
\* further top-level key (here user_tier) are optional
Requests ==
    LET base == { [text |-> t, metadata |-> m] : t \in Texts, m \in Metadatas }
        chan == {<<>>} \cup { [channel |-> c] : c \in {"voice", "whatsapp"} }
        prod == {<<>>, [product |-> "alex"]}
        tier == {<<>>, [user_tier |-> "enterprise"]}
    IN  { Merge(Merge(b, c), Merge(p, t)) : b \in base, c \in chan, p \in prod, t \in tier }

\* rules["intents"] as the ruleset file orders it: category, then pattern groups
IntentsStatic ==
    [category |-> "static",
     items |-> << [name |-> "greeting", patterns |-> <<R_hola>>],
                  [name |-> "faq_pricing", patterns |-> <<R_precio>>] >>]
IntentsTransactional ==
    [category |-> "transactional",
     items |-> << [name |-> "lead_capture", patterns |-> <<>>],
                  [name |-> "booking", patterns |-> <<R_agendar>>] >>]
IntentsConversational ==
    [category |-> "conversational",
     items |-> << [name |-> "explanation_request", patterns |-> <<R_explicame>>],
                  [name |-> "product_comparison", patterns |-> <<R_comparar, R_plan>>] >>]
IntentsCritical ==
    [category |-> "critical",
     items |-> << [name |-> "legal_or_health_related", patterns |-> <<R_denunci>>],
                  [name |-> "ats_evaluation", patterns |-> <<R_candidato>>] >>]

\* product rules of alex, with and without a risk modifier; generic has none
ProductRulesModifier ==
    [alex |-> [risk_modifier |-> 10, min_category_if_not_static |-> "conversational"]]
ProductRulesHint ==
    [alex |-> [min_category_if_not_static |-> "conversational"]]

\* the conversational groups of a ruleset file that names its comparison group
\* like the static pricing group
IntentsConversationalFaq ==
    [category |-> "conversational",
     items |-> << [name |-> "explanation_request", patterns |-> <<R_explicame>>],
                  [name |-> "faq_pricing", patterns |-> <<R_comparar, R_plan>>] >>]

\* three ruleset files: the categories in either order, the product rule with or
\* without a risk modifier, and one file in which two groups share a name
RulesetFiles ==
    { [intents |-> <<IntentsStatic, IntentsTransactional,
                     IntentsConversational, IntentsCritical>>,
       product_rules |-> ProductRulesModifier],
      [intents |-> <<IntentsCritical, IntentsConversational,
                     IntentsTransactional, IntentsStatic>>,
       product_rules |-> ProductRulesHint],
      [intents |-> <<IntentsStatic, IntentsTransactional,
                     IntentsConversationalFaq, IntentsCritical>>,
       product_rules |-> ProductRulesModifier] }

\* channel risk modifiers (web, voice); whatsapp has no channel rule
ChannelRules ==
    { [web |-> [risk_modifier |-> m[1]], voice |-> [risk_modifier |-> m[2]]] :
        m \in {<<0 - 20, 0 - 10>>, <<0, 10>>, <<30, 40>>} }

RiskHighs == {60, 80}
\* max_cost_per_request_usd: -0.001, 0, 0.001, 0.002 and 0.025 USD
CostLimits == {0 - 100, 0, 100, 200, 2500}

Rulesets ==
    { [intents |-> f.intents, channel_rules |-> c, product_rules |-> f.product_rules,
       thresholds |-> [risk |-> [high |-> h]],
       financial_guardrails |->
           [max_cost_per_request_usd |-> l, timeouts_ms |-> [voice |-> 2000]]] :
        f \in RulesetFiles, c \in ChannelRules, h \in RiskHighs, l \in CostLimits }

(***************************************************************************)
(* RouterEngineV1._compile_regexes                                         *)
(***************************************************************************)
\* the (category, item) pairs in the order the two nested loops visit them
RECURSIVE FlatIntents(_)
FlatIntents(intents) ==
    IF intents = <<>> THEN <<>>
    ELSE [k \in DOMAIN Head(intents).items |->
             [name |-> Head(intents).items[k].name,
              regex |-> Head(intents).items[k].patterns,
              category |-> Head(intents).category]]
         \o FlatIntents(Tail(intents))

\* self.compiled_intents[name] = {...}: a dict keeps the position of a key that
\* is assigned again and appends a new key
DictSet(d, e) ==
    IF \E k \in DOMAIN d : d[k].name = e.name
    THEN [k \in DOMAIN d |-> IF d[k].name = e.name THEN e ELSE d[k]]
    ELSE Append(d, e)

RECURSIVE CompileFrom(_, _)
CompileFrom(flat, acc) ==
    IF flat = <<>> THEN acc
    ELSE CompileFrom(Tail(flat),
                     IF Head(flat).regex # <<>> THEN DictSet(acc, Head(flat)) ELSE acc)

compile_regexes(r) == CompileFrom(FlatIntents(r.intents), <<>>)

(***************************************************************************)
(* RouterEngineV1._match_intent                                            *)
(***************************************************************************)
\* data["regex"].search(text) of a group compiled with re.IGNORECASE
group_matches(data, text) == re_search_any(data.regex, lower(text))

\* the first entry of compiled_intents, in dict order, that has the category and
\* matches the text; 0 when there is none
FirstMatch(compiled, category, text) ==
    LET hits == { k \in DOMAIN compiled :
                    compiled[k].category = category /\ group_matches(compiled[k], text) }
    IN  IF hits = {} THEN 0 ELSE CHOOSE k \in hits : \A j \in hits : k <= j

\* the order in which the four loops of _match_intent try the categories
MatchOrder == <<"static", "transactional", "critical", "conversational">>

\* complexity score returned with a category matched by a pattern
MatchScore(category, text) ==
    CASE category = "static" -> 0
      [] category = "transactional" -> 10
      [] category = "critical" -> 80
      [] category = "conversational" ->
            IF re_search_any(conditional_markers, text) THEN 40 ELSE 25

RECURSIVE MatchFrom(_, _, _)
MatchFrom(compiled, order, text) ==
    IF order = <<>>
    THEN IF split_len(text) > FallbackWords
         THEN [intent |-> "explanation_request", category |-> "conversational",
               complexity_score |-> 40]
         ELSE [intent |-> "unknown", category |-> "static", complexity_score |-> 0]
    ELSE LET k == FirstMatch(compiled, Head(order), text)
         IN  IF k # 0
             THEN [intent |-> compiled[k].name, category |-> Head(order),
                   complexity_score |-> MatchScore(Head(order), text)]
             ELSE MatchFrom(compiled, Tail(order), text)

match_intent(compiled, text, missing_slots) ==
    IF Len(missing_slots) > 0
    THEN [intent |-> "slot_filling", category |-> "transactional", complexity_score |-> 10]
    ELSE MatchFrom(compiled, MatchOrder, strip(text))

(***************************************************************************)
(* RouterEngineV1._calculate_risk                                          *)
(***************************************************************************)
channel_risk(r, channel) ==
    IF channel \in DOMAIN r.channel_rules
    THEN r.channel_rules[channel].risk_modifier ELSE 0

product_risk(r, product) ==
    IF product \in DOMAIN r.product_rules
    THEN Get(r.product_rules[product], "risk_modifier", 0) ELSE 0

category_risk(category) ==
    CASE category = "critical" -> CriticalRisk
      [] category = "conversational" -> ConversationalRisk
      [] OTHER -> 0

\* mutant of keyword_floor: the keyword risk is added to the other terms
keyword_floor_additive(text, risk) ==
    IF re_search_any(risk_keywords, lower(text)) THEN risk + KeywordFloor ELSE risk

keyword_floor(text, risk) ==
    IF re_search_any(risk_keywords, lower(text)) THEN Max(risk, KeywordFloor) ELSE risk

tier_risk(metadata) ==
    IF Get(metadata, "user_tier", "") = "enterprise" THEN EnterpriseRisk ELSE 0

clamp_risk(risk) == Min(risk, RiskCap)

\* metadata is the dict the caller passes: getRoute passes input_data itself
calculate_risk(r, text, intent, category, metadata) ==
    LET channel == Get(metadata, "channel", "web")
        product == Get(metadata, "product", "generic")
        base    == channel_risk(r, channel) + product_risk(r, product)
                     + category_risk(category)
    IN  clamp_risk(keyword_floor(text, base) + tier_risk(metadata))

(***************************************************************************)
(* RouterEngineV1.getRoute                                                 *)
(***************************************************************************)
\* mutant of voice_filter: the length of the text as received, not stripped
voice_filter_unstripped(channel, text) ==
    channel = "voice" /\ (text = <<>> \/ Len(text) < VoiceMinLen)

\* Rule C: channel is voice and the text is empty or, stripped, a few characters
voice_filter(channel, text) ==
    channel = "voice" /\ (text = <<>> \/ Len(strip(text)) < VoiceMinLen)

\* mutant of slots_missing: one missing slot is not enough
slots_missing_second(missing_slots) == missing_slots # <<>> /\ Len(missing_slots) > 1

\* Rule B: some slot is still missing
slots_missing(missing_slots) == missing_slots # <<>> /\ Len(missing_slots) > 0

\* mutant of is_free: only a text that is a free phrase counts
is_free_exact(text) ==
    LET text_clean == re_sub_punct(strip(lower(text)))
    IN  \E k \in DOMAIN free_patterns : free_patterns[k] = text_clean

\* Rule A: the cleaned text is a free phrase, or is short and starts with one
is_free(text) ==
    LET text_lower == strip(lower(text))
        text_clean == re_sub_punct(text_lower)
    IN  \/ \E k \in DOMAIN free_patterns : free_patterns[k] = text_clean
        \/ /\ Len(text_clean) < FreeMaxLen
           /\ \E k \in DOMAIN free_patterns : startswith(text_clean, free_patterns[k])

\* the Decision of the three hard rules
rule_decision(preview, channel, intent, category, complexity, note) ==
    [input_preview |-> preview, channel |-> channel, engine_used |-> "rules_engine",
     intent |-> intent, category |-> category, complexity_score |-> complexity,
     risk_score |-> 0, route_selected |-> "ANTIGRAVITY", estimated_cost |-> CostFloor,
     fallback_used |-> FALSE, note |-> note]

\* mutant of base_route: conversational traffic is sent to the alternate cheap model
base_route_google(category) ==
    CASE category = "static" -> "ANTIGRAVITY"
      [] category = "transactional" -> "ANTIGRAVITY"
      [] category = "conversational" -> "GOOGLE"
      [] category = "critical" -> "DEEPSEEK_THEN_GPT5"
      [] OTHER -> "ANTIGRAVITY"

\* category -> route
base_route(category) ==
    CASE category = "static" -> "ANTIGRAVITY"
      [] category = "transactional" -> "ANTIGRAVITY"
      [] category = "conversational" -> "DEEPSEEK"
      [] category = "critical" -> "DEEPSEEK_THEN_GPT5"
      [] OTHER -> "ANTIGRAVITY"

\* mutant of escalates: a risk equal to the threshold does not escalate
escalates_strict(r, risk_score) == risk_score > r.thresholds.risk.high

\* the risk threshold override
escalates(r, risk_score) == risk_score >= r.thresholds.risk.high

\* mutant of route_cost: the cheap model estimated at a tenth of its cost
route_cost_cheap(target) ==
    CASE target = "ANTIGRAVITY" -> CostAntigravity
      [] target = "DEEPSEEK" -> CostDeepseek \div 10
      [] target = "DEEPSEEK_THEN_GPT5" -> CostWaterfall
      [] OTHER -> 0

\* estimated cost of a route
route_cost(target) ==
    CASE target = "ANTIGRAVITY" -> CostAntigravity
      [] target = "DEEPSEEK" -> CostDeepseek
      [] target = "DEEPSEEK_THEN_GPT5" -> CostWaterfall
      [] OTHER -> 0

\* mutant of cost_exceeded: a cost equal to the limit already falls back
cost_exceeded_at_limit(r, estimated_cost) ==
    estimated_cost >= r.financial_guardrails.max_cost_per_request_usd

\* the cost limit check
cost_exceeded(r, estimated_cost) ==
    estimated_cost > r.financial_guardrails.max_cost_per_request_usd

\* steps 1 to 5 of getRoute: intent, risk, route, threshold override, cost limit
classify(r, compiled, input, text, channel, missing_slots) ==
    LET m          == match_intent(compiled, text, missing_slots)
        risk_score == calculate_risk(r, text, m.intent, m.category, input)
        up         == escalates(r, risk_score)
        final      == IF up THEN "DEEPSEEK_THEN_GPT5" ELSE base_route(m.category)
        category   == IF up THEN "critical" ELSE m.category
        over       == cost_exceeded(r, route_cost(final))
    IN  [input_preview |-> prefix(text, PreviewLen), channel |-> channel,
         engine_used |-> "rules_engine", intent |-> m.intent, category |-> category,
         complexity_score |-> m.complexity_score, risk_score |-> risk_score,
         route_selected |-> IF over THEN "ANTIGRAVITY" ELSE final,
         estimated_cost |-> IF over THEN CostFloor ELSE route_cost(final),
         fallback_used |-> over]

\* mutant of getRoute: Rule B is tried before Rule C
getRoute_slots_first(r, compiled, input) ==
    LET text          == Get(input, "text", <<>>)
        metadata      == Get(input, "metadata", <<>>)
        channel       == Get(input, "channel", "web")
        missing_slots == Get(metadata, "missing_slots", <<>>)
    IN  IF slots_missing(missing_slots)
        THEN rule_decision(prefix(text, PreviewLen), channel, "slot_filling",
                           "transactional", 10, "Rule B: Strict Slot Filling")
        ELSE IF voice_filter(channel, text)
        THEN rule_decision(P_voice_noise, channel, "silence_or_noise", "static", 0,
                           "Rule C: Voice Aggressive Filter")
        ELSE IF is_free(text)
        THEN rule_decision(prefix(text, PreviewLen), channel, "quick_confirmation",
                           "static", 0, "Rule A: Global Free Patterns")
        ELSE classify(r, compiled, input, text, channel, missing_slots)

getRoute(r, compiled, input) ==
    LET text          == Get(input, "text", <<>>)
        metadata      == Get(input, "metadata", <<>>)
        channel       == Get(input, "channel", "web")
        missing_slots == Get(metadata, "missing_slots", <<>>)
    IN  IF voice_filter(channel, text)
        THEN rule_decision(P_voice_noise, channel, "silence_or_noise", "static", 0,
                           "Rule C: Voice Aggressive Filter")
        ELSE IF slots_missing(missing_slots)
        THEN rule_decision(prefix(text, PreviewLen), channel, "slot_filling",
                           "transactional", 10, "Rule B: Strict Slot Filling")
        ELSE IF is_free(text)
        THEN rule_decision(prefix(text, PreviewLen), channel, "quick_confirmation",
                           "static", 0, "Rule A: Global Free Patterns")
        ELSE classify(r, compiled, input, text, channel, missing_slots)

\* mutant of compiled_after: the forced category is written into the shared entry
\* of the matched intent
compiled_after_aliased(compiled, d) ==
    [k \in DOMAIN compiled |->
        IF compiled[k].name = d.intent
        THEN [compiled[k] EXCEPT !.category = d.category] ELSE compiled[k]]

\* self.compiled_intents after a call of getRoute that returned d: getRoute and
\* its helpers read the dict and assign nothing to it
compiled_after(compiled, d) == compiled

(***************************************************************************)
(* The state machine: an engine constructed from a ruleset, serving one    *)
(* request at a time.                                                      *)
(***************************************************************************)
None == <<>>

Init ==
    /\ rules \in Rulesets
    /\ compiled_intents = compile_regexes(rules)
    /\ input_data = None
    /\ decision = None
    /\ prev_decision = None
    /\ pc = "ready"
    /\ gateway = None
    /\ exec = None

\* a caller invokes router.getRoute(input_data)
GetRoute ==
    /\ pc = "ready"
    /\ \E req \in Requests :
         /\ input_data' = req
         /\ decision' = getRoute(rules, compiled_intents, req)
    /\ compiled_intents' = compiled_after(compiled_intents, decision')
    /\ pc' = "returned"
    /\ UNCHANGED <<rules, prev_decision, gateway, exec>>

\* the caller invokes getRoute a second time with the identical request
GetRouteAgain ==
    /\ pc = "returned"
    /\ decision' = getRoute(rules, compiled_intents, input_data)
    /\ prev_decision' = decision
    /\ compiled_intents' = compiled_after(compiled_intents, decision')
    /\ pc' = "repeated"
    /\ UNCHANGED <<rules, input_data, gateway, exec>>

\* the request and its Decision are dropped; the engine serves the next call
Discard ==
    /\ pc \in {"returned", "repeated"}
    /\ input_data' = None
    /\ decision' = None
    /\ prev_decision' = None
    /\ pc' = "ready"
    /\ UNCHANGED <<rules, compiled_intents, gateway, exec>>

Next == GetRoute \/ GetRouteAgain \/ Discard

Spec == Init /\ [][Next]_vars

(***************************************************************************)
(* LLMGateway: the provider calls                                          *)
(***************************************************************************)
\* _call_deepseek: without a client no request is made; with one, the API call
\* answers (ok) or raises, and the exception is turned into an error result
call_deepseek(gw, ok) ==
    IF ~gw.deepseek_client
    THEN [error |-> "DeepSeek API Key missing",
          content |-> "Error: Configure DEEPSEEK_API_KEY in Render"]
    ELSE IF ok
    THEN [content |-> "completion", model |-> "deepseek-chat", cost_estimated |-> 200]
    ELSE [error |-> "exception", content |-> "DeepSeek API Error"]

\* _call_google
call_google(gw, ok) ==
    IF ~gw.google_key
    THEN [error |-> "Google API Key missing",
          content |-> "Error: Configure GOOGLE_API_KEY in Render"]
    ELSE IF ok
    THEN [content |-> "completion", model |-> "gemini-pro", cost_estimated |-> 100]
    ELSE [error |-> "exception", content |-> "Google API Error"]

\* _call_gpt5
call_gpt5(gw, ok) ==
    IF ~gw.openai_client
    THEN [error |-> "OpenAI API Key missing",
          content |-> "Error: Configure OPENAI_API_KEY in Render"]
    ELSE IF ok
    THEN [content |-> "completion", model |-> "gpt-4-turbo", cost_estimated |-> 3000]
    ELSE [error |-> "exception", content |-> "OpenAI API Error"]

\* mutant of is_confident: the check never passes
is_confident_never(result) == FALSE

\* _is_confident
is_confident(result) == "error" \notin DOMAIN result

\* result["note"] = note
with_note(result, note) == Merge([note |-> note], result)

\* the environments a gateway is constructed in: each API key set or not
Gateways ==
    [deepseek_client : BOOLEAN, openai_client : BOOLEAN, google_key : BOOLEAN]

\* the route decisions and requests handed to execute
RouteDecisions ==
    {<<>>} \cup { [route_selected |-> r] :
                    r \in {"ANTIGRAVITY", "DEEPSEEK", "GOOGLE", "DEEPSEEK_THEN_GPT5",
                           "LOCAL"} }
ExecuteInputs == { [text |-> t] : t \in {T_hola, T_denunciar} }

\* no call of execute in progress
Idle ==
    [pc |-> "idle", route |-> "", text |-> <<>>, ds_result |-> None,
     execution_result |-> None, calls |-> <<>>, requests |-> <<>>]

(***************************************************************************)
(* LLMGateway.execute, one step per provider call.  exec.calls lists the   *)
(* provider methods invoked, exec.requests the API requests sent; the wall *)
(* clock (provider_latency_ms) is left out.                                *)
(***************************************************************************)
\* a gateway constructed on its own; no routing engine
GatewayInit ==
    /\ gateway \in Gateways
    /\ exec = Idle
    /\ rules = None
    /\ compiled_intents = None
    /\ input_data = None
    /\ decision = None
    /\ prev_decision = None
    /\ pc = "none"

RouterUnchanged ==
    UNCHANGED <<rules, compiled_intents, input_data, decision, prev_decision, pc, gateway>>

\* execute(route_decision, input_data) is entered
Execute ==
    /\ exec.pc = "idle"
    /\ \E rd \in RouteDecisions, inp \in ExecuteInputs :
         exec' = [Idle EXCEPT !.pc = "dispatch",
                              !.route = Get(rd, "route_selected", ""),
                              !.text = Get(inp, "text", <<>>)]
    /\ RouterUnchanged

\* route == "ANTIGRAVITY": the static response
StaticResponse ==
    /\ exec.pc = "dispatch" /\ exec.route = "ANTIGRAVITY"
    /\ exec' = [exec EXCEPT !.pc = "return",
                            !.execution_result =
                                [content |-> "ANTIGRAVITY_STATIC_RESPONSE",
                                 source |-> "static_rules",
                                 note |-> "Traffic handled locally. No LLM cost."]]
    /\ RouterUnchanged

\* route == "DEEPSEEK", or the first call of the waterfall
CallDeepseek ==
    /\ exec.pc = "dispatch" /\ exec.route \in {"DEEPSEEK", "DEEPSEEK_THEN_GPT5"}
    /\ \E ok \in BOOLEAN :
         LET result == call_deepseek(gateway, ok)
             sent   == IF gateway.deepseek_client
                       THEN Append(exec.requests, <<"deepseek", exec.text>>)
                       ELSE exec.requests
         IN  exec' = IF exec.route = "DEEPSEEK"
                     THEN [exec EXCEPT !.pc = "return", !.execution_result = result,
                                       !.calls = Append(@, "deepseek"),
                                       !.requests = sent]
                     ELSE [exec EXCEPT !.pc = "confidence", !.ds_result = result,
                                       !.calls = Append(@, "deepseek"),
                                       !.requests = sent]
    /\ RouterUnchanged

\* route == "GOOGLE"
CallGoogle ==
    /\ exec.pc = "dispatch" /\ exec.route = "GOOGLE"
    /\ \E ok \in BOOLEAN :
         exec' = [exec EXCEPT !.pc = "return",
                              !.execution_result = call_google(gateway, ok),
                              !.calls = Append(@, "google"),
                              !.requests = IF gateway.google_key
                                           THEN Append(@, <<"google", exec.text>>)
                                           ELSE @]
    /\ RouterUnchanged

\* the waterfall, DeepSeek confident: its result is the answer
DeepseekSufficient ==
    /\ exec.pc = "confidence" /\ is_confident(exec.ds_result)
    /\ exec' = [exec EXCEPT !.pc = "return",
                            !.execution_result =
                                with_note(exec.ds_result, "Waterfall: DeepSeek sufficient.")]
    /\ RouterUnchanged

\* the waterfall, DeepSeek not confident: GPT-5 is called
CallGpt5 ==
    /\ exec.pc = "confidence" /\ ~is_confident(exec.ds_result)
    /\ \E ok \in BOOLEAN :
         exec' = [exec EXCEPT !.pc = "return",
                              !.execution_result =
                                  with_note(call_gpt5(gateway, ok),
                                            "Waterfall: Escalated to GPT-5."),
                              !.calls = Append(@, "gpt5"),
                              !.requests = IF gateway.openai_client
                                           THEN Append(@, <<"gpt5", exec.text>>)
                                           ELSE @]
    /\ RouterUnchanged

\* any other route: no branch is taken, execution_result stays None
NoBranch ==
    /\ exec.pc = "dispatch"
    /\ exec.route \notin {"ANTIGRAVITY", "DEEPSEEK", "GOOGLE", "DEEPSEEK_THEN_GPT5"}
    /\ exec' = [exec EXCEPT !.pc = "return"]
    /\ RouterUnchanged

\* execute returns its response
Return ==
    /\ exec.pc = "return"
    /\ exec' = Idle
    /\ RouterUnchanged

GatewayNext ==
    \/ Execute \/ StaticResponse \/ CallDeepseek \/ CallGoogle
    \/ DeepseekSufficient \/ CallGpt5 \/ NoBranch \/ Return

GatewaySpec == GatewayInit /\ [][GatewayNext]_vars

(***************************************************************************)
(* What the properties below read from a state.                            *)
(***************************************************************************)
\* getRoute has returned a Decision for input_data
Returned == pc \in {"returned", "repeated"}

ReqText == Get(input_data, "text", <<>>)
ReqChannel == Get(input_data, "channel", "web")
ReqProduct == Get(input_data, "product", "generic")
ReqSlots == Get(Get(input_data, "metadata", <<>>), "missing_slots", <<>>)
ReqTier == Get(Get(input_data, "metadata", <<>>), "user_tier", "")
MaxCost == rules.financial_guardrails.max_cost_per_request_usd
RiskHigh == rules.thresholds.risk.high

\* the request is a voice request whose text is empty or, trimmed, under 10 characters
VoiceShort == ReqChannel = "voice" /\ (ReqText = <<>> \/ Len(strip(ReqText)) < 10)
\* the request has missing slots
HasSlots == Len(ReqSlots) > 0
\* none of the three override rules applies to the request
PassesOverrides == ~VoiceShort /\ ~HasSlots /\ ~is_free(ReqText)
\* what the intent matcher makes of the request
Matched == match_intent(compiled_intents, ReqText, ReqSlots)

\* C1: a voice request whose text is empty or, trimmed, shorter than 10
\* characters is routed to ANTIGRAVITY with risk 0, whatever the product, the
\* metadata and the ruleset are.
C1_VoiceSilence ==
    (Returned /\ VoiceShort) =>
        (decision.route_selected = "ANTIGRAVITY" /\ decision.risk_score = 0)

\* C1 happens: a voice text of 10 or more characters that trims to fewer than 10,
\* with missing slots, was answered by the silence filter
C1_Witness ==
    /\ Returned /\ VoiceShort
    /\ Len(ReqText) >= 10 /\ HasSlots
    /\ decision.intent = "silence_or_noise"

\* C2 as stated: every request with non-empty missing_slots gets category
\* transactional and route ANTIGRAVITY, on every channel, voice included.
C2_Original ==
    (Returned /\ HasSlots) =>
        (decision.category = "transactional" /\ decision.route_selected = "ANTIGRAVITY")

\* C2 amended: every request with non-empty missing_slots is routed to
\* ANTIGRAVITY; its category is transactional (intent slot_filling) unless the
\* silence filter takes it first (voice, text empty or trimmed under 10
\* characters), and then the category is static.
C2_SlotFilling ==
    (Returned /\ HasSlots) =>
        /\ decision.route_selected = "ANTIGRAVITY"
        /\ IF VoiceShort
           THEN decision.category = "static"
           ELSE decision.category = "transactional" /\ decision.intent = "slot_filling"

\* C2 happens: a long voice text with a high-stakes keyword and a missing slot
\* was answered as slot filling
C2_Witness ==
    /\ Returned /\ HasSlots /\ ReqChannel = "voice" /\ ~VoiceShort
    /\ re_search_any(risk_keywords, lower(ReqText))
    /\ decision.category = "transactional"

\* C3 as stated: with max_cost_per_request_usd below 0.002 every request of a
\* category other than static is returned with ANTIGRAVITY and fallback_used.
C3_Original ==
    (Returned /\ MaxCost < 200 /\ decision.category # "static") =>
        (decision.route_selected = "ANTIGRAVITY" /\ decision.fallback_used)

\* C3 amended: with a non-negative max_cost_per_request_usd below 0.002 every
\* request is returned with ANTIGRAVITY, and fallback_used is true exactly when
\* the category is conversational or critical: a transactional request (slot
\* filling included) costs nothing and is returned without fallback.
C3_GuardrailPrecedence ==
    (Returned /\ MaxCost >= 0 /\ MaxCost < 200) =>
        /\ decision.route_selected = "ANTIGRAVITY"
        /\ decision.fallback_used <=> decision.category \in {"conversational", "critical"}

\* C3 happens: under such a ceiling a conversational request fell back
C3_Witness ==
    /\ Returned /\ MaxCost < 200 /\ MaxCost > 0
    /\ decision.category = "conversational"
    /\ decision.fallback_used /\ decision.route_selected = "ANTIGRAVITY"

\* C4: every Decision has 0 <= risk_score <= 100, negative risk modifiers
\* included.
C4_RiskInRange ==
    Returned => (0 <= decision.risk_score /\ decision.risk_score <= 100)

\* the rulesets that differ from r at most by larger channel risk modifiers
RaisedRules(r) ==
    { r2 \in Rulesets :
        /\ r2.intents = r.intents /\ r2.product_rules = r.product_rules
        /\ r2.thresholds = r.thresholds
        /\ r2.financial_guardrails = r.financial_guardrails
        /\ \A c \in DOMAIN r.channel_rules :
             r2.channel_rules[c].risk_modifier >= r.channel_rules[c].risk_modifier }

\* C5: a request that passes the override rules with risk_score >= risk.high is
\* reported critical whatever the matcher said, with route DEEPSEEK_THEN_GPT5
\* unless the waterfall's cost is over the ceiling (then ANTIGRAVITY by
\* fallback); with larger risk modifiers and all else fixed the same holds.
C5_Escalation ==
    (Returned /\ PassesOverrides /\ decision.risk_score >= RiskHigh) =>
        /\ decision.category = "critical"
        /\ IF 2500 > MaxCost
           THEN decision.route_selected = "ANTIGRAVITY" /\ decision.fallback_used
           ELSE decision.route_selected = "DEEPSEEK_THEN_GPT5"
        /\ \A r2 \in RaisedRules(rules) :
             LET d2 == getRoute(r2, compile_regexes(r2), input_data)
             IN  /\ d2.risk_score >= decision.risk_score
                 /\ d2.category = "critical"
                 /\ d2.route_selected = decision.route_selected

\* C5 happens: a request the matcher calls static, with a risk equal to the
\* threshold, was escalated to the waterfall
C5_Witness ==
    /\ Returned /\ PassesOverrides
    /\ Matched.category = "static"
    /\ decision.risk_score = RiskHigh
    /\ decision.category = "critical"
    /\ decision.route_selected = "DEEPSEEK_THEN_GPT5"

\* the route of a category and the cost of a route, as the specification lists them
RouteOfCategory(c) ==
    IF c = "conversational" THEN "DEEPSEEK"
    ELSE IF c = "critical" THEN "DEEPSEEK_THEN_GPT5" ELSE "ANTIGRAVITY"
CostOfRoute(t) ==
    IF t = "DEEPSEEK" THEN 200 ELSE IF t = "DEEPSEEK_THEN_GPT5" THEN 2500 ELSE 0

\* C6: for a request that reaches full classification, fallback_used is true
\* exactly when the cost of the route chosen after escalation exceeds the
\* ceiling; then the Decision has ANTIGRAVITY and the floor cost 0.0001,
\* otherwise the chosen route and its looked-up cost.
C6_GuardrailLast ==
    (Returned /\ PassesOverrides) =>
        LET chosen == IF decision.risk_score >= RiskHigh
                      THEN "DEEPSEEK_THEN_GPT5" ELSE RouteOfCategory(Matched.category)
            cost   == CostOfRoute(chosen)
        IN  /\ decision.fallback_used <=> cost > MaxCost
            /\ IF cost > MaxCost
               THEN decision.route_selected = "ANTIGRAVITY" /\ decision.estimated_cost = 10
               ELSE decision.route_selected = chosen /\ decision.estimated_cost = cost

\* C6 happens: a cheap-model route whose cost equals the ceiling was returned
\* unchanged
C6_Witness ==
    /\ Returned /\ PassesOverrides
    /\ MaxCost = 200
    /\ decision.route_selected = "DEEPSEEK" /\ decision.estimated_cost = 200
    /\ ~decision.fallback_used

\* the fields of a Decision that idempotence is about
Core(d) == <<d.intent, d.category, d.risk_score, d.route_selected, d.fallback_used>>

C8_CostCeiling ==
    (Returned /\ MaxCost >= 0) => decision.estimated_cost <= MaxCost

\* the risk of the request before the tier bonus and the clamp
UnclampedFreeRisk ==
    LET base == channel_risk(rules, ReqChannel) + product_risk(rules, ReqProduct)
                  + category_risk(Matched.category)
    IN  IF re_search_any(risk_keywords, lower(ReqText)) THEN Max(base, 60) ELSE base

\* C9: a request that reaches risk scoring with metadata.user_tier =
\* "enterprise" gets risk_score = min(100, r + 20), r being its risk as a free
\* user before clamping.
C9_EnterpriseBonus ==
    (Returned /\ PassesOverrides /\ ReqTier = "enterprise") =>
        decision.risk_score = Min(100, UnclampedFreeRisk + 20)

\* C10: the override rules are tried in the order silence filter, slot filling,
\* free patterns and the first that applies returns the Decision; matching,
\* risk scoring, escalation and the guardrail run only when none applies.
C10_OverrideOrder ==
    Returned =>
        IF VoiceShort \/ HasSlots \/ is_free(ReqText)
        THEN /\ decision.intent = IF VoiceShort THEN "silence_or_noise"
                                  ELSE IF HasSlots THEN "slot_filling"
                                  ELSE "quick_confirmation"
             /\ "note" \in DOMAIN decision
             /\ decision.risk_score = 0 /\ ~decision.fallback_used
        ELSE /\ decision.intent = Matched.intent
             /\ "note" \notin DOMAIN decision

\* C10 happens: a request that satisfies all three rules (voice, a short free
\* phrase, a missing slot) was answered by the silence filter
C10_Witness ==
    /\ Returned /\ VoiceShort /\ HasSlots /\ is_free(ReqText)
    /\ ReqText # <<>>
    /\ decision.intent = "silence_or_noise"
    /\ "note" \in DOMAIN decision

\* the ruleset has a pattern group of category c with a pattern found in the text
RulesetMatches(c, text) ==
    \E k \in DOMAIN rules.intents :
        /\ rules.intents[k].category = c
        /\ \E j \in DOMAIN rules.intents[k].items :
             re_search_any(rules.intents[k].items[j].patterns, lower(strip(text)))

\* the earliest category, in the order static, transactional, critical,
\* conversational, of which the ruleset has a matching group ("" when none)
FirstRulesetCategory(text) ==
    IF RulesetMatches("static", text) THEN "static"
    ELSE IF RulesetMatches("transactional", text) THEN "transactional"
    ELSE IF RulesetMatches("critical", text) THEN "critical"
    ELSE IF RulesetMatches("conversational", text) THEN "conversational"
    ELSE ""

\* C11: intent matching classifies a text into the earliest category, in the
\* order static, transactional, critical, conversational, that has a matching
\* pattern group in the ruleset, whatever the order of categories and groups in
\* the ruleset is.
C11_MatchPriority ==
    (Returned /\ PassesOverrides /\ FirstRulesetCategory(ReqText) # "") =>
        Matched.category = FirstRulesetCategory(ReqText)

\* the channel, product and category terms of the request's risk
BaseRisk ==
    channel_risk(rules, ReqChannel) + product_risk(rules, ReqProduct)
      + category_risk(Matched.category)

\* the text of the request contains a high-stakes keyword, in any case
HasKeyword == re_search_any(risk_keywords, lower(ReqText))

\* C12: a request that reaches risk scoring with a high-stakes keyword in its
\* text has risk_score >= 60 however low or negative the channel, product and
\* category terms are; the keyword is a floor, max(risk, 60), not a further
\* term: the score is that maximum, or 20 more for the tier bonus, capped at 100.
C12_KeywordFloor ==
    (Returned /\ PassesOverrides /\ HasKeyword) =>
        /\ decision.risk_score >= 60
        /\ decision.risk_score \in
             { Min(100, Max(BaseRisk, 60)), Min(100, Max(BaseRisk, 60) + 20) }

\* C12 happens: an upper-case keyword with negative other terms was scored
\* exactly 60
C12_Witness ==
    /\ Returned /\ PassesOverrides /\ HasKeyword
    /\ ~re_search_any(risk_keywords, ReqText)
    /\ BaseRisk < 0
    /\ decision.risk_score = 60

\* the text of the request lower-cased, trimmed and without punctuation
NormalizedText == re_sub_punct(strip(lower(ReqText)))

\* the normalized text is a free phrase, or is shorter than 20 characters and
\* starts with one
FreePhrase ==
    \/ NormalizedText \in Range(free_patterns)
    \/ /\ Len(NormalizedText) < 20
       /\ \E p \in Range(free_patterns) :
            Len(p) <= Len(NormalizedText) /\ SubSeq(NormalizedText, 1, Len(p)) = p

RouteAgrees ==
    /\ ~decision.fallback_used =>
          decision.route_selected = RouteOfCategory(decision.category)
    /\ decision.fallback_used =>
          /\ decision.route_selected = "ANTIGRAVITY"
          /\ decision.category \in {"conversational", "critical"}
    /\ decision.route_selected # "GOOGLE"

\* C15 as stated: in every Decision the route agrees with the reported category
\* unless the guardrail fired, and then the route is ANTIGRAVITY and the
\* category conversational or critical; the route is never GOOGLE.
C15_Original == Returned => RouteAgrees

\* C15 amended: the same, for every ruleset whose max_cost_per_request_usd is
\* not negative (under a negative ceiling the guardrail also fires on static and
\* transactional requests, whose route costs 0).
C15_RouteAgrees == (Returned /\ MaxCost >= 0) => RouteAgrees

\* C15 happens: a request the matcher calls static was escalated to critical and
\* then sent back to ANTIGRAVITY by the guardrail
C15_Witness ==
    /\ Returned /\ PassesOverrides /\ MaxCost >= 0
    /\ Matched.category = "static"
    /\ decision.category = "critical"
    /\ decision.fallback_used /\ decision.route_selected = "ANTIGRAVITY"

\* C14: in execute, route ANTIGRAVITY calls no provider; DEEPSEEK and GOOGLE
\* call their provider, exactly once; DEEPSEEK_THEN_GPT5 calls DeepSeek first
\* and GPT-5 only after it and only when the DeepSeek result failed the
\* confidence check (it is an error result); any other route calls nothing.
\* An API request is sent only inside the call of its provider.
C14_Waterfall ==
    exec # None =>
        LET done == exec.pc = "return"
        IN  /\ exec.route = "ANTIGRAVITY" => exec.calls = <<>>
            /\ exec.route = "DEEPSEEK" =>
                 exec.calls = IF done THEN <<"deepseek">> ELSE <<>>
            /\ exec.route = "GOOGLE" =>
                 exec.calls = IF done THEN <<"google">> ELSE <<>>
            /\ exec.route = "DEEPSEEK_THEN_GPT5" =>
                 /\ exec.calls \in {<<>>, <<"deepseek">>, <<"deepseek", "gpt5">>}
                 /\ exec.pc \in {"confidence", "return"} => exec.calls # <<>>
                 /\ Len(exec.calls) = 2 => "error" \in DOMAIN exec.ds_result
                 /\ (done /\ "error" \in DOMAIN exec.ds_result) => Len(exec.calls) = 2
            /\ exec.route \notin {"ANTIGRAVITY", "DEEPSEEK", "GOOGLE",
                                  "DEEPSEEK_THEN_GPT5"} => exec.calls = <<>>
            /\ Len(exec.requests) <= Len(exec.calls)
            /\ \A i \in DOMAIN exec.requests :
                 \E j \in DOMAIN exec.calls : exec.calls[j] = exec.requests[i][1]

\* C14 happens: the waterfall sent a DeepSeek request that failed, then a GPT-5
\* request, and returns the GPT-5 answer
C14_Witness ==
    /\ exec # None /\ exec.pc = "return" /\ exec.route = "DEEPSEEK_THEN_GPT5"
    /\ exec.requests = <<<<"deepseek", exec.text>>, <<"gpt5", exec.text>>>>
    /\ "error" \notin DOMAIN exec.execution_result
====
